---- MODULE Spec2Model ----
(***************************************************************************)
(* PBS monitor: the Collector (bin/pbs_monitor.py) polls the scheduler and *)
(* appends node snapshots and job observations to an SQLite store; the     *)
(* reporting tool (bin/pbs_stats.py) reads the store or the scheduler.     *)
(*                                                                         *)
(* Time is an integer number of seconds since "Mon Jan 01 00:00:00 2024";  *)
(* every instant of the model lies in the year 2024 and the host clock is  *)
(* UTC, so datetime.now() and SQLite's datetime('now') agree.              *)
(*                                                                         *)
(* A date text is a sequence of fixed-width fields in the order they are   *)
(* printed.  A numeric field is its number, an alphabetic field is         *)
(* LetterBase + its alphabetical rank, so that comparing two texts field   *)
(* by field is the byte-wise comparison SQLite and Python apply to the     *)
(* strings ('0'..'9' < 'A'..'Z', the empty string below everything).       *)
(* Every other string is a sequence of chunks, e.g. "nodeA/0" is           *)
(* <<"nodeA", "/", "0">>.                                                  *)
(***************************************************************************)
EXTENDS Integers, Sequences, FiniteSets, TLC

\* ---------------------------------------------------------------- bounds
MaxPolls == 2
MaxTicks == 1

\* ------------------------------------------------------ program constants
time_window_minutes == 5
SecondsPerMinute == 60
SecondsPerDay == 86400
ModelYear == 2024
LetterBase == 10000

\* Python None / SQL NULL where a string (a sequence of chunks) is expected
NULL == <<"<NULL>">>
\* Python None where a datetime (a number of seconds) is expected
NoneDt == -1
\* datetime.min
DatetimeMin == -2
\* strptime raising ValueError, where a datetime is expected
ValueError == -3

\* ------------------------------------------------------------- calendar
CumDays == <<0, 31, 60, 91, 121, 152, 182, 213, 244, 274, 305, 335, 366>>
\* alphabetical rank of "Mon".."Sun" (index 0 = Monday)
WdayRank == <<1, 5, 6, 4, 0, 2, 3>>
\* alphabetical rank of "Jan".."Dec"
MonRank == <<4, 3, 7, 0, 8, 6, 5, 1, 11, 10, 9, 2>>

DayOfYear(t) == t \div SecondsPerDay
MonthOf(t) == CHOOSE m \in 1..12 : CumDays[m] <= DayOfYear(t) /\ DayOfYear(t) < CumDays[m + 1]
DayOfMonth(t) == DayOfYear(t) - CumDays[MonthOf(t)] + 1
HourOf(t) == (t % SecondsPerDay) \div 3600
MinuteOf(t) == (t % 3600) \div 60
SecondOf(t) == t % 60

\* strftime("%a %b %d %H:%M:%S %Y"): "Wed Jan 03 10:00:00 2024"
PbsText(t) ==
    << LetterBase + WdayRank[(DayOfYear(t) % 7) + 1], LetterBase + MonRank[MonthOf(t)],
       DayOfMonth(t), HourOf(t), MinuteOf(t), SecondOf(t), ModelYear >>

\* SQLite datetime(): "2024-01-03 10:00:00"; also datetime.isoformat()
IsoText(t) ==
    << ModelYear, MonthOf(t), DayOfMonth(t), HourOf(t), MinuteOf(t), SecondOf(t) >>

\* strftime("%d-%m-%Y %H:%M:%S"): "03-01-2024 10:00:00"
DmyText(t) ==
    << DayOfMonth(t), MonthOf(t), ModelYear, HourOf(t), MinuteOf(t), SecondOf(t) >>

NAText == << LetterBase + 100 >>
EmptyText == << >>

\* byte-wise string order: a < b
RECURSIVE TextLess(_, _)
TextLess(a, b) ==
    IF b = << >> THEN FALSE
    ELSE IF a = << >> THEN TRUE
    ELSE IF Head(a) # Head(b) THEN Head(a) < Head(b)
    ELSE TextLess(Tail(a), Tail(b))

TextGeq(a, b) == ~TextLess(a, b)

\* datetime.strptime(date_str, "%a %b %d %H:%M:%S %Y"): the weekday and month
\* names must be names, the numbers in range; the weekday is not checked
\* against the date.
Strptime(s) ==
    IF /\ Len(s) = 7
       /\ s[1] \in {LetterBase + r : r \in 0..6}
       /\ s[2] \in {LetterBase + r : r \in 0..11}
       /\ s[7] = ModelYear
       /\ s[4] \in 0..23 /\ s[5] \in 0..59 /\ s[6] \in 0..59
    THEN LET m == CHOOSE k \in 1..12 : LetterBase + MonRank[k] = s[2]
         IN IF s[3] \in 1..(CumDays[m + 1] - CumDays[m])
            THEN (CumDays[m] + s[3] - 1) * SecondsPerDay + s[4] * 3600 + s[5] * 60 + s[6]
            ELSE ValueError
    ELSE ValueError

\* parse_pbs_date without its except clause
parse_pbs_date_uncaught(date_str) ==
    IF date_str = EmptyText THEN NoneDt ELSE Strptime(date_str)

\* parse_pbs_date, lines 14-23: ValueError is caught and None returned
parse_pbs_date(date_str) ==
    IF date_str = EmptyText THEN NoneDt
    ELSE IF Strptime(date_str) = ValueError THEN NoneDt
    ELSE Strptime(date_str)

\* format_pbs_date, lines 25-33: any exception gives "N/A"
format_pbs_date(date_str) ==
    IF date_str = EmptyText THEN NAText
    ELSE LET dt == parse_pbs_date(date_str)
         IN IF dt \notin {NoneDt, ValueError} THEN DmyText(dt) ELSE NAText

\* ------------------------------------------------------------- strings
\* s.split(sep)[0]
RECURSIVE SplitFirst(_, _)
SplitFirst(s, sep) ==
    IF s = << >> \/ Head(s) = sep THEN << >>
    ELSE <<Head(s)>> \o SplitFirst(Tail(s), sep)

\* SQL "a = b": never true when either side is NULL
SqlEq(a, b) == a # NULL /\ b # NULL /\ a = b

\* ------------------------------------------------------------ the store
VARIABLES
    nodes,      \* committed rows of table nodes(timestamp, node_name, data_json)
    jobs,       \* committed rows of table jobs(job_id, user, machine, start_time, data_json)
    now,        \* wall clock
    ticks,      \* number of clock advances so far
    log,        \* history: one record per run of collect_data
    out,        \* what the last reporting call returned
    watch,      \* pbs_stats.py --watch: where its loop is, and its arguments
    collectors  \* the runs of pbs_monitor.py followed statement by statement

vars == <<nodes, jobs, now, ticks, log, out, watch, collectors>>

\* ------------------------------------------------- scheduler (the inputs)
\* Thu Jan 04 00:00:00 2024
InitNow == 3 * SecondsPerDay
\* Wed Jan 03 10:00:00 2024 and Thu Jan 04 00:00:00 2024
T1 == 2 * SecondsPerDay + 10 * 3600
T2 == 3 * SecondsPerDay
\* a start time the scheduler printed in another format: "2024-01-03 10:00:00"
JunkText == IsoText(T1)

Alice == <<"alice">>
Bob == <<"bob">>
NodeA == <<"nodeA">>
NodeB == <<"nodeB">>

JobInfo(owner, host, stime, state) ==
    [Job_Owner |-> owner, exec_host |-> host, stime |-> stime, job_state |-> state]

\* what qstat can say about job 101 (alice's) and job 102 (bob's) at time t:
\* a start time is a past instant; a queued job may have none
Report101(h, s) == JobInfo(Alice \o <<"@", "login">>, h, s, IF h = << >> THEN "Q" ELSE "R")
Reports101(t) ==
    {Report101(h, PbsText(x)) : h \in {<< >>, NodeA \o <<"/", "0">>}, x \in {y \in {T1, T2} : y <= t}}
    \cup {Report101(<< >>, EmptyText), Report101(NodeA \o <<"/", "0">>, JunkText)}
Report102 == JobInfo(Bob \o <<"@", "login">>, NodeB \o <<"/", "1">>, PbsText(T1), "R")

NodeInfo == [state |-> "free"]
NodeEntry(n) == [node |-> n, info |-> NodeInfo]
JobEntry(id, r) == [job_id |-> id, info |-> r]

\* the two answers of one poll: the object pbsnodes prints and the "Jobs"
\* object qstat prints, each in printing order.  nodeB is listed while job
\* 102 runs on it.
BothAnswer ==
    [nodes |-> <<NodeEntry(NodeA), NodeEntry(NodeB)>>,
     jobs |-> <<JobEntry("101.srv", Report101(<< >>, PbsText(T1))),
                JobEntry("102.srv", Report102)>>]
Answers(t) ==
    {[nodes |-> <<NodeEntry(NodeA)>>, jobs |-> << >>]}
    \cup {[nodes |-> <<NodeEntry(NodeA)>>, jobs |-> <<JobEntry("101.srv", r)>>] : r \in Reports101(t)}
    \cup {[nodes |-> <<NodeEntry(NodeA), NodeEntry(NodeB)>>, jobs |-> <<JobEntry("102.srv", Report102)>>]}
    \cup {BothAnswer}

\* ------------------------------------------------------------ Collector
\* SELECT COUNT(*) FROM jobs WHERE job_id = ? AND user = ? AND machine = ?
\*   AND start_time >= datetime('now', '-5 minutes')
RecentCount(job_data, table, t) ==
    Cardinality({i \in DOMAIN table :
        /\ table[i].job_id = job_data.job_id
        /\ SqlEq(table[i].user, job_data.user)
        /\ SqlEq(table[i].machine, job_data.machine)
        /\ TextGeq(table[i].start_time, IsoText(t - time_window_minutes * SecondsPerMinute))})

should_store_job(job_data, table, t) == RecentCount(job_data, table, t) = 0

\* lines 93-95: the normalised user, exec_host and stime of one job
JobUser(job_info) == SplitFirst(job_info.Job_Owner, "@")
JobExecHost(job_info) ==
    IF job_info.exec_host # << >> THEN SplitFirst(job_info.exec_host, "/") ELSE NULL

\* lines 98-103: the dictionary handed to the duplicate check
JobData(job_id, job_info) ==
    [job_id |-> job_id,
     user |-> JobUser(job_info),
     machine |-> IF JobExecHost(job_info) \in {NULL, << >>} THEN <<"unknown">> ELSE JobExecHost(job_info),
     start_time |-> job_info.stime]

\* lines 107-108: the row the INSERT writes
JobRow(job_id, job_info) ==
    [job_id |-> job_id, user |-> JobUser(job_info), machine |-> JobExecHost(job_info),
     start_time |-> job_info.stime, data_json |-> job_info]

\* lines 92-112: the loop over the jobs; the check reads the rows this same
\* connection has inserted and not yet committed
RECURSIVE StoreJobs(_, _, _, _, _)
StoreJobs(jobs_data, table, t, stored, skipped) ==
    IF jobs_data = << >> THEN [table |-> table, stored |-> stored, skipped |-> skipped]
    ELSE LET j == Head(jobs_data)
         IN IF should_store_job(JobData(j.job_id, j.info), table, t)
            THEN StoreJobs(Tail(jobs_data), Append(table, JobRow(j.job_id, j.info)), t,
                           stored \cup {j.job_id}, skipped)
            ELSE StoreJobs(Tail(jobs_data), table, t, stored, skipped \cup {j.job_id})

\* lines 82-85: one row per node of the answer
StoreNodes(nodes_data, table, t) ==
    table \o [i \in DOMAIN nodes_data |->
                [timestamp |-> IsoText(t), node_name |-> nodes_data[i].node,
                 data_json |-> nodes_data[i].info]]

\* where collect_data can raise, in the order of its statements
Faults == <<"pbsnodes", "qstat", "backup", "nodes_json", "jobs_json", "insert_job", "commit">>
FaultAt(fault) == CHOOSE i \in DOMAIN Faults : Faults[i] = fault
\* the statement with this name is reached and raises
Raises(fault, step) == fault # "none" /\ FaultAt(fault) = FaultAt(step)
\* the statement with this name has been passed without raising
Passed(fault, step) == fault = "none" \/ FaultAt(fault) > FaultAt(step)

\* collect_data with the node rows committed as soon as they are inserted
collect_data_nodesCommittedFirst(fault, nodes_data, jobs_data, t) ==
    LET nodesDone == Passed(fault, "nodes_json")
        r == IF Passed(fault, "jobs_json")
             THEN StoreJobs(IF Raises(fault, "insert_job") THEN << >> ELSE jobs_data, jobs, t, {}, {})
             ELSE [table |-> jobs, stored |-> {}, skipped |-> {}]
        committed == fault = "none"
    IN [raised |-> ~committed,
        nodes |-> IF nodesDone THEN StoreNodes(nodes_data, nodes, t) ELSE nodes,
        jobs |-> IF committed THEN r.table ELSE jobs,
        stored |-> IF committed THEN r.stored ELSE {},
        skipped |-> IF committed THEN r.skipped ELSE {}]

\* collect_data, lines 51-128: everything is written inside one transaction
\* that line 114 commits; an exception is re-raised, the process exits and
\* the uncommitted rows are rolled back
collect_data(fault, nodes_data, jobs_data, t) ==
    LET txNodes == IF Passed(fault, "nodes_json") THEN StoreNodes(nodes_data, nodes, t) ELSE nodes
        r == IF Passed(fault, "jobs_json")
             THEN StoreJobs(IF Raises(fault, "insert_job") THEN << >> ELSE jobs_data, jobs, t, {}, {})
             ELSE [table |-> jobs, stored |-> {}, skipped |-> {}]
        committed == fault = "none"
    IN [raised |-> ~committed,
        nodes |-> IF committed THEN txNodes ELSE nodes,
        jobs |-> IF committed THEN r.table ELSE jobs,
        stored |-> IF committed THEN r.stored ELSE {},
        skipped |-> IF committed THEN r.skipped ELSE {}]

\* two runs of pbs_monitor.py may be alive at once (cron does not wait)
Instances == {1, 2}
\* a run that has not started: no transaction, nothing fetched
Idle ==
    [pc |-> "idle", timestamp |-> 0, since |-> 0, nodes_data |-> << >>, jobs_data |-> << >>,
     k |-> 1, writing |-> FALSE, tx_nodes |-> << >>, tx_jobs |-> << >>, gates |-> << >>]

NoOut == [op |-> "none"]
WatchOff == [pc |-> "off", user |-> NULL, machine |-> NULL, fetches |-> 0]

Init ==
    /\ nodes = << >>
    /\ jobs = << >>
    /\ now = InitNow
    /\ ticks = 0
    /\ log = << >>
    /\ out = NoOut
    /\ watch = WatchOff
    /\ collectors = [p \in Instances |-> Idle]

Tick(delta) ==
    /\ ticks < MaxTicks
    /\ now' = now + delta
    /\ ticks' = ticks + 1
    /\ out' = NoOut
    /\ UNCHANGED <<collectors, nodes, jobs, log, watch>>

\* one run of pbs_monitor.py (cron): init_db, then collect_data
Poll(fault, nodes_data, jobs_data) ==
    /\ Len(log) < MaxPolls
    /\ LET r == collect_data(fault, nodes_data, jobs_data, now)
       IN /\ nodes' = r.nodes
          /\ jobs' = r.jobs
          /\ log' = Append(log, [t |-> now, fault |-> fault, nodes_data |-> nodes_data,
                                 jobs_data |-> jobs_data, nodesBefore |-> Len(nodes),
                                 jobsBefore |-> Len(jobs), stored |-> r.stored,
                                 skipped |-> r.skipped, raised |-> r.raised])
    /\ out' = NoOut
    /\ UNCHANGED <<collectors, now, ticks, watch>>

PollOk == \E a \in Answers(now) : Poll("none", a.nodes, a.jobs)
PollFail == \E f \in {Faults[i] : i \in DOMAIN Faults} : Poll(f, BothAnswer.nodes, BothAnswer.jobs)
Advance == \E d \in {60, 360} : Tick(d)

Next == PollOk \/ PollFail \/ Advance

Spec == Init /\ [][Next]_vars

\* ------------------------------------------------ claims on the Collector
DedupWindow == time_window_minutes * SecondsPerMinute

\* the jobs table as it was right after the k-th run of collect_data
JobsAfter(k) == SubSeq(jobs, 1, IF k < Len(log) THEN log[k + 1].jobsBefore ELSE Len(jobs))
NodesAfter(k) == SubSeq(nodes, 1, IF k < Len(log) THEN log[k + 1].nodesBefore ELSE Len(nodes))
JobsBefore(k) == SubSeq(jobs, 1, log[k].jobsBefore)

RowsOfJob(table, job_id) == {i \in DOMAIN table : table[i].job_id = job_id}
Reported(k) == {log[k].jobs_data[i] : i \in DOMAIN log[k].jobs_data}

\* runs k and k+1 both succeeded and both report this job, unchanged, and
\* the store knew nothing of the job before run k
PolledTwice(k, e) ==
    /\ k + 1 \in DOMAIN log
    /\ ~log[k].raised /\ ~log[k + 1].raised
    /\ e \in Reported(k) /\ e \in Reported(k + 1)
    /\ RowsOfJob(JobsBefore(k), e.job_id) = {}

\* C1: the jobs table never holds two rows with the same (job_id, user,
\* machine) whose start times lie within the dedup window of each other.
C1_NoDuplicatesInWindow ==
    \A i, k \in DOMAIN jobs :
        ( /\ i < k
          /\ jobs[i].job_id = jobs[k].job_id
          /\ jobs[i].user = jobs[k].user
          /\ jobs[i].machine = jobs[k].machine
          /\ parse_pbs_date(jobs[i].start_time) # NoneDt
          /\ parse_pbs_date(jobs[k].start_time) # NoneDt )
        => LET d == parse_pbs_date(jobs[i].start_time) - parse_pbs_date(jobs[k].start_time)
           IN d > DedupWindow \/ -d > DedupWindow

\* C2: a job reported unchanged by two successive successful polls less than
\* the dedup window apart has exactly one row after the second poll: the
\* first poll stored it, the second skipped it as a duplicate.
C2_OneRowWithinWindow ==
    \A k \in DOMAIN log : \A e \in Reported(k) :
        (PolledTwice(k, e) /\ log[k + 1].t - log[k].t < DedupWindow)
        => /\ Cardinality(RowsOfJob(JobsAfter(k + 1), e.job_id)) = 1
           /\ e.job_id \in log[k].stored
           /\ e.job_id \in log[k + 1].skipped

\* C3: a job reported unchanged by two successful polls more than the dedup
\* window apart has two rows after the second poll.
C3_TwoRowsBeyondWindow ==
    \A k \in DOMAIN log : \A e \in Reported(k) :
        (PolledTwice(k, e) /\ log[k + 1].t - log[k].t > DedupWindow)
        => Cardinality(RowsOfJob(JobsAfter(k + 1), e.job_id)) = 2

\* C4: node and job ingestion of one poll are independent: when the job
\* dataset cannot be fetched or parsed the node rows of that poll are still
\* persisted, and when the node dataset cannot be fetched or parsed the job
\* rows of that poll are still persisted.
C4_IngestionIndependent ==
    \A k \in DOMAIN log :
        /\ log[k].fault \in {"qstat", "jobs_json"}
           => Len(NodesAfter(k)) = log[k].nodesBefore + Len(log[k].nodes_data)
        /\ log[k].fault \in {"pbsnodes", "nodes_json"}
           => \A e \in Reported(k) : RowsOfJob(JobsAfter(k), e.job_id) # {}

\* --------------------------------------------------------- Query Engine
\* a command-line date "DD-MM-YYYY" is the text <<DD, MM, YYYY>>; None is << >>
NoDate == << >>
DateArg(t) == <<DayOfMonth(t), MonthOf(t), ModelYear>>
\* datetime.strptime(date, "%d-%m-%Y"): midnight of that day
StrptimeDmy(s) == (CumDays[s[2]] + s[1] - 1) * SecondsPerDay

\* the --days argument: absent, the word all, or a numeral
NoDays == [kind |-> "none", n |-> 0]
AllDays == [kind |-> "all", n |-> 0]
NumDays(n) == [kind |-> "num", n |-> n]

\* Python truthiness of an optional string argument
Truthy(s) == s # NULL /\ s # << >>

\* lines 226-237 and 624-631: the WHERE clause over user and machine
WhereStats(row, user, machine) ==
    /\ Truthy(user) => SqlEq(row.user, user)
    /\ Truthy(machine) => SqlEq(row.machine, machine)
    /\ ~Truthy(user) => row.user # NULL
WhereDetails(row, user, machine) ==
    /\ Truthy(user) => SqlEq(row.user, user)
    /\ Truthy(machine) => SqlEq(row.machine, machine)

\* the bounds without the day added to the last date: a closed range cut at
\* its last midnight
DateBounds_lastMidnight(days, date, start_date, end_date, t) ==
    IF date # NoDate
    THEN [start_dt |-> StrptimeDmy(date), end_dt |-> StrptimeDmy(date), period |-> "Specific date"]
    ELSE IF start_date # NoDate /\ end_date # NoDate
    THEN [start_dt |-> StrptimeDmy(start_date), end_dt |-> StrptimeDmy(end_date),
          period |-> "Date range"]
    ELSE IF start_date # NoDate
    THEN [start_dt |-> StrptimeDmy(start_date), end_dt |-> NoneDt, period |-> "From date"]
    ELSE IF end_date # NoDate
    THEN [start_dt |-> NoneDt, end_dt |-> StrptimeDmy(end_date), period |-> "Until date"]
    ELSE IF days.kind = "num"
    THEN [start_dt |-> t - days.n * SecondsPerDay, end_dt |-> NoneDt, period |-> "Last days"]
    ELSE [start_dt |-> NoneDt, end_dt |-> NoneDt, period |-> "All history"]

\* lines 278-308: the bounds of the date filter and the period label
DateBounds(days, date, start_date, end_date, t) ==
    IF date # NoDate
    THEN [start_dt |-> StrptimeDmy(date), end_dt |-> StrptimeDmy(date) + SecondsPerDay,
          period |-> "Specific date"]
    ELSE IF start_date # NoDate /\ end_date # NoDate
    THEN [start_dt |-> StrptimeDmy(start_date), end_dt |-> StrptimeDmy(end_date) + SecondsPerDay,
          period |-> "Date range"]
    ELSE IF start_date # NoDate
    THEN [start_dt |-> StrptimeDmy(start_date), end_dt |-> NoneDt, period |-> "From date"]
    ELSE IF end_date # NoDate
    THEN [start_dt |-> NoneDt, end_dt |-> StrptimeDmy(end_date) + SecondsPerDay,
          period |-> "Until date"]
    ELSE IF days.kind = "num"
    THEN [start_dt |-> t - days.n * SecondsPerDay, end_dt |-> NoneDt, period |-> "Last days"]
    ELSE [start_dt |-> NoneDt, end_dt |-> NoneDt, period |-> "All history"]

\* the date filter with an exclusive lower bound (job_dt <= start_dt)
IncludeJob_exclusive(start_time_str, b) ==
    IF start_time_str = EmptyText THEN FALSE
    ELSE LET job_dt == parse_pbs_date(start_time_str)
         IN IF job_dt = NoneDt THEN FALSE
            ELSE /\ ~(b.start_dt # NoneDt /\ job_dt <= b.start_dt)
                 /\ ~(b.end_dt # NoneDt /\ job_dt >= b.end_dt)

\* lines 313-326: does the date filter keep this row
IncludeJob(start_time_str, b) ==
    IF start_time_str = EmptyText THEN FALSE
    ELSE LET job_dt == parse_pbs_date(start_time_str)
         IN IF job_dt = NoneDt THEN FALSE
            ELSE /\ ~(b.start_dt # NoneDt /\ job_dt < b.start_dt)
                 /\ ~(b.end_dt # NoneDt /\ job_dt >= b.end_dt)

\* line 317: an exception escaping parse_pbs_date in the loop over the rows
\* of the base query is caught nowhere in get_job_stats
ParseRaises(table, user, machine) ==
    \E i \in DOMAIN table :
        /\ WhereStats(table[i], user, machine)
        /\ table[i].start_time # EmptyText
        /\ parse_pbs_date(table[i].start_time) = ValueError

\* COALESCE(machine, 'N/A')
NAString == <<"N/A">>
Coalesce(machine) == IF machine = NULL THEN NAString ELSE machine

\* lines 311-333: the rows of the base query that pass the date filter
RECURSIVE FilterJobs(_, _, _, _)
FilterJobs(table, user, machine, b) ==
    IF table = << >> THEN << >>
    ELSE LET row == Head(table)
             rest == FilterJobs(Tail(table), user, machine, b)
         IN IF WhereStats(row, user, machine) /\ IncludeJob(row.start_time, b)
            THEN <<[user |-> row.user, machine |-> Coalesce(row.machine),
                    start_time |-> row.start_time]>> \o rest
            ELSE rest

\* the counting with last_runs[key] overwritten by every job of the key
CountJob_overwrite(entries, job) ==
    LET job_dt == parse_pbs_date(job.start_time)
        hit == {i \in DOMAIN entries : entries[i].user = job.user /\ entries[i].machine = job.machine}
    IN IF hit # {}
       THEN [i \in DOMAIN entries |->
                IF i \in hit THEN [entries[i] EXCEPT !.jobs = @ + 1, !.last = job_dt]
                ELSE entries[i]]
       ELSE Append(entries, [user |-> job.user, machine |-> job.machine, jobs |-> 1, last |-> job_dt])

\* lines 342-357: job_counts and last_runs after one more job; the two
\* dictionaries are one sequence of entries in insertion order
CountJob(entries, job) ==
    LET job_dt == parse_pbs_date(job.start_time)
        hit == {i \in DOMAIN entries : entries[i].user = job.user /\ entries[i].machine = job.machine}
    IN IF hit # {}
       THEN [i \in DOMAIN entries |->
                IF i \in hit
                THEN [entries[i] EXCEPT !.jobs = @ + 1,
                                        !.last = IF job_dt > @ THEN job_dt ELSE @]
                ELSE entries[i]]
       ELSE Append(entries, [user |-> job.user, machine |-> job.machine, jobs |-> 1, last |-> job_dt])

RECURSIVE GroupJobs(_, _)
GroupJobs(filtered_jobs, entries) ==
    IF filtered_jobs = << >> THEN entries
    ELSE GroupJobs(Tail(filtered_jobs), CountJob(entries, Head(filtered_jobs)))

\* lines 361-370: one result row of a group
ResultRow(e) ==
    [user |-> e.user, machine |-> e.machine, jobs |-> e.jobs,
     last_run |-> IF e.last # NoneDt THEN format_pbs_date(PbsText(e.last)) ELSE NAText]

\* line 373: results.sort(key=jobs, reverse=True), a stable sort
RECURSIVE InsertByJobs(_, _)
InsertByJobs(sorted, x) ==
    IF sorted = << >> THEN <<x>>
    ELSE IF Head(sorted).jobs >= x.jobs THEN <<Head(sorted)>> \o InsertByJobs(Tail(sorted), x)
    ELSE <<x>> \o sorted
RECURSIVE SortByJobs(_, _)
SortByJobs(rows, sorted) ==
    IF rows = << >> THEN sorted ELSE SortByJobs(Tail(rows), InsertByJobs(sorted, Head(rows)))

\* ----------------------------------------------------------- Live Prober
\* what running the qstat command can end in
QstatOutcomes == {"ok", "nonzero", "timeout", "badjson", "notobject", "missing"}
\* the exception each outcome raises inside the try block, "" for none
LiveException(kind) ==
    CASE kind = "timeout" -> "TimeoutExpired"
      [] kind = "badjson" -> "JSONDecodeError"
      [] kind = "notobject" -> "AttributeError"
      [] kind = "missing" -> "FileNotFoundError"
      [] OTHER -> ""
\* the except clauses with only the first one, TimeoutExpired
LiveHandled_timeoutOnly(exc) == exc = "TimeoutExpired"

\* lines 118-129: the except clauses; the last one is "except Exception"
IsException(exc) == exc \notin {"KeyboardInterrupt", "SystemExit"}
LiveHandled(exc) == exc \in {"TimeoutExpired", "JSONDecodeError"} \/ IsException(exc)

\* machine in exec_host: substring test
Contains(s, sub) ==
    \E i \in 0..(Len(s) - Len(sub)) : SubSeq(s, i + 1, i + Len(sub)) = sub

\* lines 70-114: the rows built from the answer
RECURSIVE LiveRows(_, _, _)
LiveRows(jobs_data, machine, t) ==
    IF jobs_data = << >> THEN << >>
    ELSE LET job_info == Head(jobs_data).info
             exec_host == IF job_info.exec_host = << >> THEN NULL ELSE job_info.exec_host
             rest == LiveRows(Tail(jobs_data), machine, t)
         IN IF Truthy(machine) /\ Truthy(exec_host) /\ ~Contains(exec_host, machine) THEN rest
            ELSE IF job_info.job_state = "F" THEN rest
            ELSE <<[job_id |-> Head(jobs_data).job_id,
                    user |-> SplitFirst(job_info.Job_Owner, "@"),
                    machine |-> IF Truthy(exec_host) THEN exec_host ELSE NAString,
                    state |-> job_info.job_state,
                    start_time |-> IsoText(t),
                    is_real_time |-> TRUE]>> \o rest

\* get_real_time_jobs, lines 47-129; qstat is what the command ended in
get_real_time_jobs(user, machine, qstat, t) ==
    IF qstat.kind = "nonzero" THEN [raised |-> FALSE, rows |-> << >>]
    ELSE IF LiveException(qstat.kind) # ""
    THEN [raised |-> ~LiveHandled(LiveException(qstat.kind)), rows |-> << >>]
    ELSE [raised |-> FALSE, rows |-> LiveRows(qstat.jobs, machine, t)]

\* get_job_stats, lines 202-387
get_job_stats(days, date, start_date, end_date, user, machine, real_time, table, qstat, t) ==
    IF real_time
    THEN LET live == get_real_time_jobs(user, machine, qstat, t)
         IN [raised |-> live.raised, period |-> "Real-time (current)",
             total_jobs |-> Len(live.rows), results |-> live.rows, is_real_time |-> TRUE]
    ELSE LET b == DateBounds(days, date, start_date, end_date, t)
             filtered_jobs == FilterJobs(table, user, machine, b)
             entries == GroupJobs(filtered_jobs, << >>)
             rows == [i \in DOMAIN entries |-> ResultRow(entries[i])]
         IN IF ParseRaises(table, user, machine)
            THEN [raised |-> TRUE, period |-> b.period, total_jobs |-> 0, results |-> << >>,
                  is_real_time |-> FALSE]
            ELSE [raised |-> FALSE, period |-> b.period, total_jobs |-> Len(filtered_jobs),
                  results |-> SortByJobs(rows, << >>), is_real_time |-> FALSE]

\* ORDER BY start_time DESC compares the stored texts; rows with equal
\* texts come in either order: the set of row sequences the query may return
RECURSIVE OrderByStartTimeDesc(_, _)
OrderByStartTimeDesc(table, S) ==
    IF S = {} THEN {<< >>}
    ELSE UNION {{<<table[i]>> \o rest : rest \in OrderByStartTimeDesc(table, S \ {i})} :
                i \in {k \in S : \A m \in S : TextGeq(table[k].start_time, table[m].start_time)}}

\* lines 684-705: one detail record; the catalogue of the model carries no
\* resource fields, the record keeps the fields the claims speak of
DetailRow(row) ==
    [job_id |-> row.job_id, user |-> row.user, machine |-> row.machine,
     start_time |-> format_pbs_date(row.start_time), state |-> row.data_json.job_state]

\* lines 657-674: the rows kept by the cutoff, fetched is the query's answer
RECURSIVE DetailRows(_, _)
DetailRows(fetched, cutoff_date) ==
    IF fetched = << >> THEN << >>
    ELSE LET row == Head(fetched)
             start_time == parse_pbs_date(row.start_time)
             rest == DetailRows(Tail(fetched), cutoff_date)
         IN IF cutoff_date # NoneDt /\ (start_time = NoneDt \/ start_time < cutoff_date)
            THEN rest
            ELSE <<DetailRow(row)>> \o rest

\* get_job_details, lines 615-708; line 670 parses every fetched row, and an
\* exception escaping parse_pbs_date is caught nowhere
get_job_details(user, machine, days, fetched, t) ==
    IF \E i \in DOMAIN fetched : parse_pbs_date(fetched[i].start_time) = ValueError
    THEN [raised |-> TRUE, rows |-> << >>]
    ELSE [raised |-> FALSE,
          rows |-> DetailRows(fetched, IF days.kind = "num" THEN t - days.n * SecondsPerDay
                                       ELSE NoneDt)]

\* the rows the SELECT of get_job_details matches, before ORDER BY
MatchDetails(table, user, machine) ==
    {i \in DOMAIN table : WhereDetails(table[i], user, machine)}

\* parse_pbs_date(x) or datetime.min / None replaced by datetime.min
OrMin(dt) == IF dt = NoneDt THEN DatetimeMin ELSE dt

\* lines 722-738: unique_jobs after the loop, in insertion order
RECURSIVE UniqueJobs(_, _)
UniqueJobs(job_list, unique_jobs) ==
    IF job_list = << >> THEN unique_jobs
    ELSE LET job == Head(job_list)
             at == {i \in DOMAIN unique_jobs : unique_jobs[i].job_id = job.job_id}
             current_date == IF at = {} THEN DatetimeMin
                             ELSE OrMin(parse_pbs_date(unique_jobs[CHOOSE i \in at : TRUE].start_time))
             new_date == OrMin(parse_pbs_date(job.start_time))
         IN IF job.job_id = "" THEN UniqueJobs(Tail(job_list), unique_jobs)
            ELSE IF at = {} THEN UniqueJobs(Tail(job_list), Append(unique_jobs, job))
            ELSE IF new_date > current_date
            THEN UniqueJobs(Tail(job_list),
                            [i \in DOMAIN unique_jobs |-> IF i \in at THEN job ELSE unique_jobs[i]])
            ELSE UniqueJobs(Tail(job_list), unique_jobs)

\* lines 743-747: sorted(..., key=start time or datetime.min, reverse=True)
RECURSIVE InsertByDate(_, _)
InsertByDate(sorted, x) ==
    IF sorted = << >> THEN <<x>>
    ELSE IF OrMin(parse_pbs_date(Head(sorted).start_time)) >= OrMin(parse_pbs_date(x.start_time))
    THEN <<Head(sorted)>> \o InsertByDate(Tail(sorted), x)
    ELSE <<x>> \o sorted
RECURSIVE SortByDate(_, _)
SortByDate(rows, sorted) ==
    IF rows = << >> THEN sorted ELSE SortByDate(Tail(rows), InsertByDate(sorted, Head(rows)))

\* print_job_details, lines 710-789: the rows it prints, in order
print_job_details(job_list) == SortByDate(UniqueJobs(job_list, << >>), << >>)

\* ------------------------------------------------- reporting: the inputs
Jan3 == DateArg(T1)
Jan4 == DateArg(T2)
StatsArgs(days, date, start_date, end_date) ==
    [days |-> days, date |-> date, start_date |-> start_date, end_date |-> end_date]
DateFilters ==
    {StatsArgs(NoDays, NoDate, NoDate, NoDate), StatsArgs(AllDays, NoDate, NoDate, NoDate),
     StatsArgs(NumDays(1), NoDate, NoDate, NoDate), StatsArgs(NoDays, Jan3, NoDate, NoDate),
     StatsArgs(NoDays, NoDate, Jan3, Jan3), StatsArgs(NoDays, NoDate, Jan4, NoDate),
     StatsArgs(NoDays, NoDate, NoDate, Jan3), StatsArgs(NumDays(1), Jan3, NoDate, NoDate)}
\* --user and --machine
UserMachineFilters == {<<NULL, NULL>>, <<Alice, NULL>>, <<NULL, NodeA>>}
NoQstat == [kind |-> "none", jobs |-> << >>]

\* One run of pbs_stats.py prints one report and exits; out keeps that report
\* until the clock or the store moves on.
\* pbs_stats.py without --real-time: the summary of the store
Summary ==
    /\ out = NoOut
    /\ \E f \in DateFilters, um \in UserMachineFilters :
          LET user == um[1]
              machine == um[2]
          IN
          out' = [op |-> "summary", days |-> f.days, date |-> f.date, start_date |-> f.start_date,
                  end_date |-> f.end_date, user |-> user, machine |-> machine,
                  res |-> get_job_stats(f.days, f.date, f.start_date, f.end_date, user, machine,
                                        FALSE, jobs, NoQstat, now)]
    /\ UNCHANGED <<collectors, nodes, jobs, now, ticks, log, watch>>

\* the detail view: get_job_details, then the collapse of print_job_details
Detail ==
    /\ out = NoOut
    /\ \E days \in {NoDays, AllDays, NumDays(1)}, um \in UserMachineFilters :
          \E fetched \in OrderByStartTimeDesc(jobs, MatchDetails(jobs, um[1], um[2])) :
             LET user == um[1]
                 machine == um[2]
                 r == get_job_details(user, machine, days, fetched, now)
             IN out' = [op |-> "detail", days |-> days, user |-> user, machine |-> machine,
                        raised |-> r.raised, rows |-> r.rows, shown |-> print_job_details(r.rows)]
    /\ UNCHANGED <<collectors, nodes, jobs, now, ticks, log, watch>>

DayPasses == Tick(SecondsPerDay)

NextQuery == PollOk \/ DayPasses \/ Summary \/ Detail

SpecQuery == Init /\ [][NextQuery]_vars

\* ------------------------------------------------------- live reporting
\* what qstat can say, live: job 101 running, queued or finished, job 102
\* running on nodeB or on nodeA1
Live101 ==
    {JobInfo(Alice \o <<"@", "login">>, NodeA \o <<"/", "0">>, PbsText(T1), "R"),
     JobInfo(Alice \o <<"@", "login">>, << >>, EmptyText, "Q"),
     JobInfo(Alice \o <<"@", "login">>, NodeA \o <<"/", "0">>, PbsText(T1), "F")}
Live102 ==
    {JobInfo(Bob \o <<"@", "login">>, NodeB \o <<"/", "1">>, PbsText(T1), "R"),
     JobInfo(Bob \o <<"@", "login">>, NodeA \o <<"1", "/", "0">>, PbsText(T1), "R")}
LiveAnswers ==
    {a \o b : a \in {<< >>} \cup {<<JobEntry("101.srv", r)>> : r \in Live101},
              b \in {<< >>} \cup {<<JobEntry("102.srv", r)>> : r \in Live102}}
\* what one run of the qstat command ends in
QstatResults ==
    {[kind |-> k, jobs |-> << >>] : k \in QstatOutcomes \ {"ok"}}
    \cup {[kind |-> "ok", jobs |-> a] : a \in LiveAnswers}

\* -n/--interval, default 5 seconds
interval == 5
\* iterations of the watch loop the model follows
MaxFetches == 2

\* the live report falling back on the store when the scheduler shows nothing
LiveOut_storeFallback(user, machine, q) ==
    LET live == get_job_stats(NoDays, NoDate, NoDate, NoDate, user, machine, TRUE, jobs, q, now)
        hist == get_job_stats(NoDays, NoDate, NoDate, NoDate, user, machine, FALSE, jobs, q, now)
    IN [op |-> "live", user |-> user, machine |-> machine, qstat |-> q,
        res |-> IF live.results = << >>
                THEN [live EXCEPT !.results = hist.results, !.total_jobs = hist.total_jobs]
                ELSE live]

LiveOut(user, machine, q) ==
    [op |-> "live", user |-> user, machine |-> machine, qstat |-> q,
     res |-> get_job_stats(NoDays, NoDate, NoDate, NoDate, user, machine, TRUE, jobs, q, now)]

\* pbs_stats.py --real-time, lines 981-990
LiveReport ==
    /\ out = NoOut
    /\ watch.pc = "off"
    /\ \E um \in UserMachineFilters, q \in QstatResults : out' = LiveOut(um[1], um[2], q)
    /\ UNCHANGED <<collectors, nodes, jobs, now, ticks, log, watch>>

\* pbs_stats.py --watch, lines 941-947: the loop is entered
WatchStart ==
    /\ watch.pc = "off"
    /\ out = NoOut
    /\ \E um \in UserMachineFilters :
          watch' = [pc |-> "fetch", user |-> um[1], machine |-> um[2], fetches |-> 0]
    /\ UNCHANGED <<collectors, nodes, jobs, now, ticks, log, out>>

\* the fetch of a watch loop that ends when the scheduler shows nothing
WatchFetch_stopOnEmpty ==
    /\ watch.pc = "fetch"
    /\ \E q \in QstatResults :
          /\ out' = LiveOut(watch.user, watch.machine, q)
          /\ watch' = [watch EXCEPT !.pc = IF out'.res.raised THEN "crashed"
                                           ELSE IF out'.res.results = << >> THEN "stopped"
                                           ELSE "render",
                                    !.fetches = @ + 1]
    /\ UNCHANGED <<collectors, nodes, jobs, now, ticks, log>>

\* the fetch of a watch loop that records what it saw in the jobs table
WatchFetch_recording ==
    /\ watch.pc = "fetch"
    /\ \E q \in QstatResults :
          /\ out' = LiveOut(watch.user, watch.machine, q)
          /\ jobs' = jobs \o [i \in DOMAIN out'.res.results |->
                                [job_id |-> out'.res.results[i].job_id,
                                 user |-> out'.res.results[i].user,
                                 machine |-> out'.res.results[i].machine,
                                 start_time |-> out'.res.results[i].start_time,
                                 data_json |-> [job_state |-> out'.res.results[i].state]]]
          /\ watch' = [watch EXCEPT !.pc = IF out'.res.raised THEN "crashed" ELSE "render",
                                    !.fetches = @ + 1]
    /\ UNCHANGED <<collectors, nodes, now, ticks, log>>

\* lines 951-957: the fetch; an exception other than KeyboardInterrupt
\* leaves main uncaught
WatchFetch ==
    /\ watch.pc = "fetch"
    /\ \E q \in QstatResults :
          /\ out' = LiveOut(watch.user, watch.machine, q)
          /\ watch' = [watch EXCEPT !.pc = IF out'.res.raised THEN "crashed" ELSE "render",
                                    !.fetches = @ + 1]
    /\ UNCHANGED <<collectors, nodes, jobs, now, ticks, log>>

\* lines 959-969: header, rows, footer
WatchRender ==
    /\ watch.pc = "render"
    /\ watch' = [watch EXCEPT !.pc = "sleep"]
    /\ UNCHANGED <<collectors, nodes, jobs, now, ticks, log, out>>

\* line 970: time.sleep(args.interval), then the next iteration
WatchSleep ==
    /\ watch.pc = "sleep"
    /\ watch.fetches < MaxFetches
    /\ now' = now + interval
    /\ watch' = [watch EXCEPT !.pc = "fetch"]
    /\ UNCHANGED <<collectors, nodes, jobs, ticks, log, out>>

\* lines 972-973: Ctrl+C anywhere in the loop
WatchInterrupt ==
    /\ watch.pc \in {"fetch", "render", "sleep"}
    /\ watch' = [watch EXCEPT !.pc = "stopped"]
    /\ UNCHANGED <<collectors, nodes, jobs, now, ticks, log, out>>

NextLive == LiveReport \/ WatchStart \/ WatchFetch \/ WatchRender \/ WatchSleep \/ WatchInterrupt

SpecLive == Init /\ [][NextLive]_vars

\* ---------------------------------------------- claims on the Live Prober
\* C5: get_real_time_jobs never raises: when the scheduler command times out,
\* exits non-zero or prints something that is not JSON it returns an empty
\* list, and the watch loop goes on to its next step.
C5_LiveNeverRaises ==
    /\ out.op = "live" =>
          /\ ~out.res.raised
          /\ out.qstat.kind \in {"timeout", "nonzero", "badjson"} =>
                out.res.results = << >> /\ out.res.total_jobs = 0
    /\ watch.pc # "crashed"
    /\ (watch.pc = "render" /\ watch.fetches > 0) => out.op = "live"

\* the watch loop is about to render after a fetch whose qstat printed
\* malformed JSON
C5_Witness ==
    /\ watch.pc = "render"
    /\ out.op = "live" /\ out.qstat.kind = "badjson"
    /\ out.res.results = << >>

\* -------------------------------------------- claims on the Query Engine
\* a stored start time that is scheduler date text, and its instant
Parseable(text) == text # EmptyText /\ Strptime(text) >= 0
TimeOf(text) == Strptime(text)
\* the row passes the --user and --machine filters (exact match)
Matches(row, user, machine) ==
    /\ user # NULL => row.user = user
    /\ machine # NULL => row.machine = machine
\* the machine a summary shows for a row
ShownMachine(row) == IF row.machine = NULL THEN NAString ELSE row.machine
MaxOf(S) == CHOOSE x \in S : \A y \in S : y <= x
RECURSIVE SumJobs(_)
SumJobs(rows) == IF rows = << >> THEN 0 ELSE Head(rows).jobs + SumJobs(Tail(rows))

\* the instants [lo, hi) a summary's date arguments select; -1 is no bound
Lo(o) ==
    IF o.date # NoDate THEN StrptimeDmy(o.date)
    ELSE IF o.start_date # NoDate THEN StrptimeDmy(o.start_date)
    ELSE IF o.end_date # NoDate THEN -1
    ELSE IF o.days.kind = "num" THEN now - o.days.n * SecondsPerDay
    ELSE -1
Hi(o) ==
    IF o.date # NoDate THEN StrptimeDmy(o.date) + SecondsPerDay
    ELSE IF o.end_date # NoDate THEN StrptimeDmy(o.end_date) + SecondsPerDay
    ELSE -1
InPeriod(x, o) == (Lo(o) # -1 => Lo(o) <= x) /\ (Hi(o) # -1 => x < Hi(o))

\* the observations a summary selects
Selected(o) ==
    {i \in DOMAIN jobs : /\ Matches(jobs[i], o.user, o.machine)
                         /\ Parseable(jobs[i].start_time)
                         /\ InPeriod(TimeOf(jobs[i].start_time), o)}
\* the observations a detail query keeps
Kept(o) ==
    {i \in DOMAIN jobs : /\ Matches(jobs[i], o.user, o.machine)
                         /\ o.days.kind = "num" =>
                               /\ Parseable(jobs[i].start_time)
                               /\ TimeOf(jobs[i].start_time) >= now - o.days.n * SecondsPerDay}

\* C6: for a job_id with several stored observations the detail view shows
\* exactly one row, the observation with the most recent parseable start time.
C6_DetailShowsLatest ==
    out.op = "detail" =>
        \A id \in {jobs[i].job_id : i \in Kept(out)} :
            LET obs == {i \in Kept(out) : jobs[i].job_id = id}
                times == {TimeOf(jobs[i].start_time) : i \in {k \in obs : Parseable(jobs[k].start_time)}}
                shown == {k \in DOMAIN out.shown : out.shown[k].job_id = id}
            IN Cardinality(obs) >= 2 =>
                  /\ Cardinality(shown) = 1
                  /\ times # {} => \A k \in shown : out.shown[k].start_time = DmyText(MaxOf(times))

\* C7: the historical summary has one row per (user, machine) group of the
\* selected observations; its jobs is the number of observations of the
\* group, its last_run their latest start time; total_jobs is the sum of jobs.
C7_SummaryGroups ==
    (out.op = "summary" /\ ~out.res.is_real_time) =>
        LET rows == out.res.results
            Key(i) == <<jobs[i].user, ShownMachine(jobs[i])>>
            Group(g) == {i \in Selected(out) : Key(i) = g}
        IN /\ \A g \in {Key(i) : i \in Selected(out)} :
                 \E k \in DOMAIN rows :
                    /\ <<rows[k].user, rows[k].machine>> = g
                    /\ rows[k].jobs = Cardinality(Group(g))
                    /\ rows[k].last_run = DmyText(MaxOf({TimeOf(jobs[i].start_time) : i \in Group(g)}))
                    /\ \A m \in DOMAIN rows : <<rows[m].user, rows[m].machine>> = g => m = k
           /\ \A k \in DOMAIN rows : Group(<<rows[k].user, rows[k].machine>>) # {}
           /\ out.res.total_jobs = SumJobs(rows)

\* a summary of two groups, one of them with two observations
C7_Witness ==
    /\ out.op = "summary" /\ ~out.res.is_real_time
    /\ Len(out.res.results) = 2
    /\ out.res.results[1].jobs = 2
    /\ out.res.total_jobs = 3

\* the per-job counts of a detail answer agree with the kept observations
SameJobs(rows, S) ==
    /\ Len(rows) = Cardinality(S)
    /\ \A i \in S : Cardinality({k \in DOMAIN rows : rows[k].job_id = jobs[i].job_id})
                    = Cardinality({k \in S : jobs[k].job_id = jobs[i].job_id})

\* C8: under "last N days" the summary and the detail query keep a record
\* iff its parsed start time is >= now minus N days; a job exactly at the
\* cutoff is included.
C8_CutoffInclusive ==
    /\ ( /\ out.op = "summary" /\ out.days.kind = "num"
         /\ out.date = NoDate /\ out.start_date = NoDate /\ out.end_date = NoDate )
       => out.res.total_jobs =
             Cardinality({i \in DOMAIN jobs :
                 /\ Matches(jobs[i], out.user, out.machine)
                 /\ Parseable(jobs[i].start_time)
                 /\ TimeOf(jobs[i].start_time) >= now - out.days.n * SecondsPerDay})
    /\ (out.op = "detail" /\ out.days.kind = "num")
       => SameJobs(out.rows, {i \in DOMAIN jobs :
                 /\ Matches(jobs[i], out.user, out.machine)
                 /\ Parseable(jobs[i].start_time)
                 /\ TimeOf(jobs[i].start_time) >= now - out.days.n * SecondsPerDay})

\* a last-1-day summary over a store holding a job that started exactly one
\* day before, and an older one
C8_Witness ==
    /\ out.op = "summary" /\ out.days.kind = "num" /\ out.date = NoDate
    /\ out.res.total_jobs = 1
    /\ \E i \in DOMAIN jobs : /\ Matches(jobs[i], out.user, out.machine)
                              /\ Parseable(jobs[i].start_time)
                              /\ TimeOf(jobs[i].start_time) = now - out.days.n * SecondsPerDay
    /\ \E i \in DOMAIN jobs : /\ Matches(jobs[i], out.user, out.machine)
                              /\ Parseable(jobs[i].start_time)
                              /\ TimeOf(jobs[i].start_time) < now - out.days.n * SecondsPerDay

\* C9: a calendar-date filter selects [from, to): a job is in the summary iff
\* from-midnight <= start time < midnight after the last day; a missing
\* bound leaves that side open.
C9_DateHalfOpen ==
    ( /\ out.op = "summary"
      /\ (out.date # NoDate \/ out.start_date # NoDate \/ out.end_date # NoDate) )
    => LET from == IF out.date # NoDate THEN out.date ELSE out.start_date
           to == IF out.date # NoDate THEN out.date ELSE out.end_date
       IN /\ out.res.total_jobs =
                Cardinality({i \in DOMAIN jobs :
                    /\ Matches(jobs[i], out.user, out.machine)
                    /\ Parseable(jobs[i].start_time)
                    /\ from # NoDate => StrptimeDmy(from) <= TimeOf(jobs[i].start_time)
                    /\ to # NoDate => TimeOf(jobs[i].start_time) < StrptimeDmy(to) + SecondsPerDay})
          /\ out.res.total_jobs = SumJobs(out.res.results)

\* a summary of 3 January over a store holding a job of 3 January and a job
\* that started at midnight of 4 January, the upper bound
C9_Witness ==
    /\ out.op = "summary" /\ out.date = Jan3
    /\ out.res.total_jobs = 1
    /\ \E i \in DOMAIN jobs : /\ Matches(jobs[i], out.user, out.machine)
                              /\ Parseable(jobs[i].start_time)
                              /\ TimeOf(jobs[i].start_time) = StrptimeDmy(Jan3) + SecondsPerDay

\* the store without the rows whose start time is empty or unparseable
CleanJobs == SelectSeq(jobs, LAMBDA row : Parseable(row.start_time))
DateBounded(o) ==
    \/ o.days.kind = "num"
    \/ o.op = "summary" /\ (o.date # NoDate \/ o.start_date # NoDate \/ o.end_date # NoDate)

\* C10: a row whose start time is empty or unparseable is excluded from every
\* date-bounded query and never makes it fail: the query returns what it
\* returns over the store without such rows.
C10_UnparseableExcluded ==
    /\ (out.op = "summary" /\ DateBounded(out))
       => /\ ~out.res.raised
          /\ out.res = get_job_stats(out.days, out.date, out.start_date, out.end_date,
                                     out.user, out.machine, FALSE, CleanJobs, NoQstat, now)
    /\ (out.op = "detail" /\ DateBounded(out))
       => /\ ~out.raised
          /\ \E fetched \in OrderByStartTimeDesc(CleanJobs, MatchDetails(CleanJobs, out.user, out.machine)) :
                out.rows = get_job_details(out.user, out.machine, out.days, fetched, now).rows

\* an "until" summary that counts a job while the store also holds a
\* matching row whose start time is in another format
C10_Witness ==
    /\ out.op = "summary" /\ out.end_date # NoDate /\ out.start_date = NoDate
    /\ out.res.total_jobs >= 1
    /\ \E i \in DOMAIN jobs : Matches(jobs[i], out.user, out.machine) /\ jobs[i].start_time = JunkText

\* the store without its i-th row
WithoutRow(table, i) == SubSeq(table, 1, i - 1) \o SubSeq(table, i + 1, Len(table))

\* C11: under an "all time" filter the summary and the detail query treat a
\* record whose start time cannot be parsed the same way: the detail query
\* returns it iff the summary counts it.
C11_AllTimeConsistent ==
    (out.op = "detail" /\ out.days.kind # "num" /\ ~out.raised) =>
        \A i \in DOMAIN jobs :
            ( /\ ~Parseable(jobs[i].start_time)
              /\ Matches(jobs[i], out.user, out.machine)
              /\ jobs[i].user # NULL )
            => LET all == get_job_stats(out.days, NoDate, NoDate, NoDate, out.user, out.machine,
                                        FALSE, jobs, NoQstat, now)
                   rest == get_job_stats(out.days, NoDate, NoDate, NoDate, out.user, out.machine,
                                         FALSE, WithoutRow(jobs, i), NoQstat, now)
                   returned == \E k \in DOMAIN out.rows : /\ out.rows[k].job_id = jobs[i].job_id
                                                          /\ out.rows[k].start_time = NAText
                   counted == all.total_jobs > rest.total_jobs
               IN returned <=> counted

\* C16: every poll that received a node payload and whose job ingestion is
\* the only thing that may have failed appended exactly one nodes row per node
\* of the payload, stamped with the time of that poll; so a node observed by k
\* polls has k rows.
C16_OneRowPerNodePerPoll ==
    /\ \A k \in DOMAIN log :
          log[k].fault \in {"none", "qstat", "jobs_json"} =>
             LET added == SubSeq(NodesAfter(k), log[k].nodesBefore + 1, Len(NodesAfter(k)))
             IN /\ Len(added) = Len(log[k].nodes_data)
                /\ \A i \in DOMAIN added : /\ added[i].node_name = log[k].nodes_data[i].node
                                           /\ added[i].timestamp = IsoText(log[k].t)
    /\ \A n \in {NodeA, NodeB} :
          Cardinality({i \in DOMAIN nodes : nodes[i].node_name = n})
          = Cardinality({k \in DOMAIN log :
                /\ log[k].fault \in {"none", "qstat", "jobs_json"}
                /\ \E i \in DOMAIN log[k].nodes_data : log[k].nodes_data[i].node = n})

\* ------------------------------------------------ walltimes and durations
\* A walltime text is the sequence of its characters: "2+03:00:00" is
\* <<"2", "+", "0", "3", ":", "0", "0", ":", "0", "0">>.
\* A Python value of these functions: an int, None, or ValueError raised.
PyInt(n) == [kind |-> "int", v |-> n]
PyNone == [kind |-> "None", v |-> 0]
PyValueError == [kind |-> "ValueError", v |-> 0]

Digits == <<"0", "1", "2", "3", "4", "5", "6", "7", "8", "9">>
IsDigit(c) == \E i \in DOMAIN Digits : Digits[i] = c
DigitVal(c) == (CHOOSE i \in DOMAIN Digits : Digits[i] = c) - 1

RECURSIVE DigitsValue(_, _)
DigitsValue(s, acc) ==
    IF s = << >> THEN acc ELSE DigitsValue(Tail(s), 10 * acc + DigitVal(Head(s)))

\* int(s) of a string: an optional sign, then one or more digits
int(s) ==
    LET body == IF s # << >> /\ Head(s) \in {"+", "-"} THEN Tail(s) ELSE s
    IN IF body # << >> /\ \A i \in DOMAIN body : IsDigit(body[i])
       THEN PyInt(IF s[1] = "-" THEN 0 - DigitsValue(body, 0) ELSE DigitsValue(body, 0))
       ELSE PyValueError

\* s.split(sep): the parts, in order
RECURSIVE split(_, _)
split(s, sep) ==
    IF \A i \in DOMAIN s : s[i] # sep THEN <<s>>
    ELSE LET k == CHOOSE i \in DOMAIN s : s[i] = sep /\ \A m \in 1..(i - 1) : s[m] # sep
         IN <<SubSeq(s, 1, k - 1)>> \o split(SubSeq(s, k + 1, Len(s)), sep)

NAChars == <<"N", "/", "A">>

\* parse_walltime, lines 131-157
RECURSIVE parse_walltime(_)
parse_walltime(walltime_str) ==
    LET colon == split(walltime_str, ":")
        plus == split(walltime_str, "+")
        ints == [i \in DOMAIN colon |-> int(colon[i])]
    IN IF walltime_str = << >> \/ walltime_str = NAChars THEN PyNone
       ELSE IF Len(colon) = 3
       THEN IF \E i \in 1..3 : ints[i] = PyValueError THEN PyValueError
            ELSE PyInt(ints[1].v * 3600 + ints[2].v * 60 + ints[3].v)
       ELSE IF Len(colon) = 2
       THEN IF \E i \in 1..2 : ints[i] = PyValueError THEN PyValueError
            ELSE PyInt(ints[1].v * 60 + ints[2].v)
       ELSE IF Len(plus) > 1
       THEN IF Len(plus) # 2 THEN PyValueError
            ELSE IF int(plus[1]) = PyValueError THEN PyValueError
            ELSE LET time_seconds == parse_walltime(plus[2])
                 IN IF time_seconds = PyValueError THEN PyValueError
                    ELSE IF time_seconds = PyNone \/ time_seconds.v = 0 THEN PyNone
                    ELSE PyInt(int(plus[1]).v * SecondsPerDay + time_seconds.v)
       ELSE IF int(walltime_str) = PyValueError THEN PyNone
       ELSE int(walltime_str)

\* one printed component of a duration: "3h" is [n |-> 3, unit |-> "h"]
Part(n, unit) == [n |-> n, unit |-> unit]
NAParts == <<Part(0, "N/A")>>

\* format_duration with "if hours > 0" in place of "if hours > 0 or days > 0"
format_duration_hoursIfNonzero(seconds) ==
    IF seconds.kind # "int" THEN NAParts
    ELSE LET days == seconds.v \div SecondsPerDay
             hours == (seconds.v % SecondsPerDay) \div 3600
             minutes == (seconds.v % 3600) \div 60
             secs == seconds.v % 60
         IN (IF days > 0 THEN <<Part(days, "d")>> ELSE << >>)
            \o (IF hours > 0 THEN <<Part(hours, "h")>> ELSE << >>)
            \o (IF minutes > 0 \/ hours > 0 \/ days > 0 THEN <<Part(minutes, "m")>> ELSE << >>)
            \o <<Part(secs, "s")>>

\* format_duration, lines 159-181: the components it joins with spaces
format_duration(seconds) ==
    IF seconds.kind # "int" THEN NAParts
    ELSE LET days == seconds.v \div SecondsPerDay
             hours == (seconds.v % SecondsPerDay) \div 3600
             minutes == (seconds.v % 3600) \div 60
             secs == seconds.v % 60
         IN (IF days > 0 THEN <<Part(days, "d")>> ELSE << >>)
            \o (IF hours > 0 \/ days > 0 THEN <<Part(hours, "h")>> ELSE << >>)
            \o (IF minutes > 0 \/ hours > 0 \/ days > 0 THEN <<Part(minutes, "m")>> ELSE << >>)
            \o <<Part(secs, "s")>>

\* the walltimes a job's resources_used can carry: the form, its numerals
\* and the text they make
WalltimeArg(form, d, h, m, s, text) ==
    [form |-> form, d |-> d, h |-> h, m |-> m, s |-> s, text |-> text]
HMS(h, m, s) == WalltimeArg("H:MM:SS", << >>, h, m, s, h \o <<":">> \o m \o <<":">> \o s)
DHMS(d, h, m, s) ==
    WalltimeArg("D+HH:MM:SS", d, h, m, s, d \o <<"+">> \o h \o <<":">> \o m \o <<":">> \o s)
RawSeconds(s) == WalltimeArg("seconds", << >>, << >>, << >>, s, s)
OtherWalltime(text) == WalltimeArg("other", << >>, << >>, << >>, << >>, text)

HourNumerals == {<<"0">>, <<"3">>, <<"1", "0">>, <<"0", "3">>}
MinuteNumerals == {<<"0", "0">>, <<"3", "0">>, <<"5", "9">>}
SecondNumerals == {<<"0", "0">>, <<"1", "5">>}
DayNumerals == {<<"1">>, <<"2">>}
Walltimes ==
    {HMS(h, m, s) : h \in HourNumerals, m \in MinuteNumerals, s \in SecondNumerals}
    \cup {DHMS(d[1], d[2], m, s) : d \in DayNumerals \X HourNumerals,
                                  m \in MinuteNumerals, s \in SecondNumerals}
    \cup {RawSeconds(s) : s \in {<<"0">>, <<"4", "5", "0">>, <<"8", "6", "4", "0", "0">>}}
    \cup {OtherWalltime(t) : t \in {<< >>, NAChars, <<"5", ":", "3", "0">>, <<"a", "b", "c">>,
                                    <<"2", "+", "4", "5", "0">>, <<"2", "+", "0">>,
                                    <<"1", "+", "2", "+", "3">>}}

\* numbers of seconds with every combination of zero and non-zero components
Durations ==
    {d * SecondsPerDay + h * 3600 + m * 60 + s :
        d \in 0..2, h \in {0, 1, 23}, m \in {0, 1, 59}, s \in {0, 1, 59}}

\* get_job_details, lines 681-682: resources_used.walltime is parsed
ParseWalltime ==
    /\ out = NoOut
    /\ \E w \in Walltimes :
          out' = [op |-> "parse_walltime", arg |-> w, res |-> parse_walltime(w.text)]
    /\ UNCHANGED <<collectors, nodes, jobs, now, ticks, log, watch>>

\* get_job_details, line 700: a number of seconds is printed
FormatDuration ==
    /\ out = NoOut
    /\ \E n \in Durations :
          out' = [op |-> "format_duration", seconds |-> n, res |-> format_duration(PyInt(n))]
    /\ UNCHANGED <<collectors, nodes, jobs, now, ticks, log, watch>>

NextDuration == ParseWalltime \/ FormatDuration

SpecDuration == Init /\ [][NextDuration]_vars

\* the number a numeral denotes
NumeralValue(s) == DigitsValue(s, 0)
Text_10_30_15 == <<"1", "0", ":", "3", "0", ":", "1", "5">>
Text_2_03_00_00 == <<"2", "+", "0", "3", ":", "0", "0", ":", "0", "0">>
Text_450 == <<"4", "5", "0">>

\* C12: parse_walltime returns h*3600+m*60+s for H:MM:SS,
\* d*86400+h*3600+m*60+s for D+HH:MM:SS and the integer for a string of
\* integer seconds, without raising: "10:30:15" gives 37815, "2+03:00:00"
\* gives 183600 and "450" gives 450.
C12_WalltimeFormats ==
    out.op = "parse_walltime" =>
        LET a == out.arg
            hms == NumeralValue(a.h) * 3600 + NumeralValue(a.m) * 60 + NumeralValue(a.s)
        IN /\ a.form = "H:MM:SS" => out.res = PyInt(hms)
           /\ a.form = "D+HH:MM:SS" => out.res = PyInt(NumeralValue(a.d) * 86400 + hms)
           /\ a.form = "seconds" => out.res = PyInt(NumeralValue(a.s))
           /\ a.text = Text_10_30_15 => out.res = PyInt(37815)
           /\ a.text = Text_2_03_00_00 => out.res = PyInt(183600)
           /\ a.text = Text_450 => out.res = PyInt(450)

\* C13: for a non-negative number of seconds n, format_duration always shows
\* seconds, shows minutes, hours and days iff n reaches a minute, an hour, a
\* day; each unit once, largest first; the shown components add up to n with
\* hours < 24, minutes < 60 and seconds < 60.
C13_DurationComponents ==
    out.op = "format_duration" =>
        LET n == out.seconds
            parts == out.res
            Shown(u) == \E i \in DOMAIN parts : parts[i].unit = u
            Val(u) == IF Shown(u) THEN parts[CHOOSE i \in DOMAIN parts : parts[i].unit = u].n ELSE 0
            Rank(u) == CHOOSE r \in 1..4 : <<"d", "h", "m", "s">>[r] = u
        IN /\ \A i \in DOMAIN parts : parts[i].unit \in {"d", "h", "m", "s"}
           /\ \A i, k \in DOMAIN parts : i < k => Rank(parts[i].unit) < Rank(parts[k].unit)
           /\ Shown("s")
           /\ Shown("m") <=> n >= 60
           /\ Shown("h") <=> n >= 3600
           /\ Shown("d") <=> n >= 86400
           /\ Val("d") * 86400 + Val("h") * 3600 + Val("m") * 60 + Val("s") = n
           /\ Val("d") >= 0 /\ Val("h") \in 0..23 /\ Val("m") \in 0..59 /\ Val("s") \in 0..59

\* one day and one second: hours and minutes are shown as zero
C13_Witness ==
    /\ out.op = "format_duration" /\ out.seconds = 86401
    /\ out.res = <<Part(1, "d"), Part(0, "h"), Part(0, "m"), Part(1, "s")>>

\* ------------------------------------- reporting beside a filled store
\* a run of the collector whose answer lists both nodes and both jobs
PollBoth == Poll("none", BothAnswer.nodes, BothAnswer.jobs)

NextReport ==
    \/ PollBoth \/ Summary \/ Detail \/ LiveReport
    \/ WatchStart \/ WatchFetch \/ WatchRender \/ WatchSleep \/ WatchInterrupt

SpecReport == Init /\ [][NextReport]_vars

\* the instants the fetch that out reports may have been made at: the watch
\* loop may have slept once since
FetchTimes == {now, now - interval}

\* C14: the real_time flag alone selects the data source of get_job_stats:
\* with the flag the result is what the scheduler's answer alone gives, for
\* any store, its period is 'Real-time (current)' and total_jobs is the number
\* of live rows; without it the result is what the store alone gives, for
\* anything the scheduler might say.
C14_FlagSelectsSource ==
    /\ out.op = "live" =>
          /\ out.res.period = "Real-time (current)"
          /\ out.res.is_real_time
          /\ out.res.total_jobs = Len(out.res.results)
          /\ \E t \in FetchTimes :
                out.res.results = get_real_time_jobs(out.user, out.machine, out.qstat, t).rows
          /\ \A i \in DOMAIN out.res.results :
                \E k \in DOMAIN out.qstat.jobs : out.qstat.jobs[k].job_id = out.res.results[i].job_id
    /\ (out.op = "summary" /\ watch.pc = "off") =>
          /\ ~out.res.is_real_time
          /\ out.res.period # "Real-time (current)"
          /\ \A q \in QstatResults :
                out.res = get_job_stats(out.days, out.date, out.start_date, out.end_date,
                                        out.user, out.machine, FALSE, jobs, q, now)
          /\ out.res.total_jobs <= Len(jobs)

\* a live report that shows nothing while the store holds observations
C14_Witness ==
    /\ out.op = "live" /\ out.qstat.kind = "ok"
    /\ out.res.results = << >>
    /\ jobs # << >>

\* C15: no reporting operation writes to the store: a step of the summary,
\* the detail view, the live report or the watch loop (its interrupt
\* included) leaves the nodes and jobs tables as they were.
C15_ReportsNeverWrite ==
    [][ ( \/ out' # out /\ out'.op \in {"summary", "detail", "live"}
          \/ watch' # watch )
        => (nodes' = nodes /\ jobs' = jobs) ]_vars

\* the watch loop was interrupted after a fetch, beside a filled store
C15_Witness ==
    /\ watch.pc = "stopped" /\ watch.fetches >= 1
    /\ out.op = "live" /\ out.res.results # << >>
    /\ jobs # << >> /\ nodes # << >>

\* ------------------------------------------------- claims on watch mode
\* C19: watch mode is a sequential loop: each iteration fetches, then
\* renders, then sleeps for the interval, and only then the next fetch
\* starts; the loop never ends on its own, whatever a fetch returns; an
\* interrupt at any point of an iteration stops it, and a stopped loop
\* fetches no more.
C19_WatchLoopOrder ==
    [][ /\ watch'.pc \in {"off", "fetch", "render", "sleep", "stopped"}
        /\ watch.pc = "off" => watch'.pc \in {"off", "fetch"}
        /\ watch.pc = "fetch" => watch'.pc \in {"fetch", "render", "stopped"}
        /\ watch.pc = "render" => watch'.pc \in {"render", "sleep", "stopped"}
        /\ watch.pc = "sleep" => watch'.pc \in {"sleep", "fetch", "stopped"}
        /\ watch.pc = "stopped" => (watch' = watch /\ out' = out)
        /\ (watch.pc = "fetch" /\ watch'.pc = "render")
           => (watch'.fetches = watch.fetches + 1 /\ out'.op = "live")
        /\ watch'.fetches # watch.fetches => (watch.pc = "fetch" /\ watch'.pc = "render")
        /\ (watch.pc = "sleep" /\ watch'.pc = "fetch") => now' = now + interval
        /\ (watch.pc # "stopped" /\ watch'.pc = "stopped")
           => (out' = out /\ watch'.fetches = watch.fetches /\ now' = now)
        /\ (watch.pc # "off" /\ watch.pc # "stopped") => (out' = out \/ out'.op = "live")
      ]_vars

\* the loop was interrupted in its second iteration, after a first fetch and
\* a second one that timed out
C19_Witness ==
    /\ watch.pc = "stopped" /\ watch.fetches = 2
    /\ out.op = "live" /\ out.qstat.kind = "timeout" /\ out.res.results = << >>

\* C20: on a successful answer get_real_time_jobs returns exactly one row for
\* each reported job that is not finished and, under a machine filter, whose
\* execution host is that machine; a finished job, a job on another machine
\* and a job without execution host are not returned under a machine filter.
C20_LiveRowsFiltered ==
    (out.op = "live" /\ out.qstat.kind = "ok") =>
        LET reported == out.qstat.jobs
            rows == out.res.results
            Wanted(k) ==
                /\ reported[k].info.job_state # "F"
                /\ out.machine # NULL => SplitFirst(reported[k].info.exec_host, "/") = out.machine
        IN /\ \A k \in DOMAIN reported :
                 Cardinality({i \in DOMAIN rows : rows[i].job_id = reported[k].job_id})
                 = IF Wanted(k) THEN 1 ELSE 0
           /\ Len(rows) = Cardinality({k \in DOMAIN reported : Wanted(k)})

\* ------------------------------------ the Collector, statement by statement
\* subprocess.run(..., timeout=30), the only timeout of the two programs
timeout == 30

\* what the scheduler says to a run: job 101 runs on nodeA; pbsnodes lists
\* nodeA, or prints an empty object
HostedJobs == <<JobEntry("101.srv", Report101(NodeA \o <<"/", "0">>, PbsText(T1)))>>
RaceAnswers ==
    {[nodes |-> <<NodeEntry(NodeA)>>, jobs |-> HostedJobs], [nodes |-> << >>, jobs |-> HostedJobs]}

\* SQLite lets one connection write at a time: a connection holds the write
\* lock from its first INSERT to its commit
WriteLockFree(p) == \A q \in Instances \ {p} : ~collectors[q].writing

\* line 52 and line 57: the run starts and launches pbsnodes
CollectorStart ==
    \E p \in Instances, a \in RaceAnswers :
        /\ collectors[p].pc = "idle"
        /\ collectors' = [collectors EXCEPT ![p] =
              [@ EXCEPT !.pc = "pbsnodes", !.timestamp = now, !.since = now,
                        !.nodes_data = a.nodes, !.jobs_data = a.jobs]]
        /\ UNCHANGED <<nodes, jobs, now, ticks, log, out, watch>>

\* line 57: check_output returns when pbsnodes exits, and qstat is launched
PbsnodesReturns ==
    \E p \in Instances :
        /\ collectors[p].pc = "pbsnodes"
        /\ collectors' = [collectors EXCEPT ![p] = [@ EXCEPT !.pc = "qstat", !.since = now]]
        /\ UNCHANGED <<nodes, jobs, now, ticks, log, out, watch>>

\* lines 59-80: check_output returns when qstat exits; backups, connect
QstatReturns ==
    \E p \in Instances :
        /\ collectors[p].pc = "qstat"
        /\ collectors' = [collectors EXCEPT ![p] = [@ EXCEPT !.pc = "nodes"]]
        /\ UNCHANGED <<nodes, jobs, now, ticks, log, out, watch>>

\* lines 120-122: the command exits non-zero, CalledProcessError is re-raised
CommandFails ==
    \E p \in Instances :
        /\ collectors[p].pc \in {"pbsnodes", "qstat"}
        /\ collectors' = [collectors EXCEPT ![p] = [@ EXCEPT !.pc = "failed"]]
        /\ UNCHANGED <<nodes, jobs, now, ticks, log, out, watch>>

\* where the run goes after job k - 1: the check of job k, or the commit
AfterJob(c, k) == IF k <= Len(c.jobs_data) THEN "gate" ELSE "commit"

\* lines 82-85: the node rows are inserted, inside this run's transaction
InsertNodes ==
    \E p \in Instances :
        LET c == collectors[p]
        IN /\ c.pc = "nodes"
           /\ c.nodes_data # << >> => WriteLockFree(p)
           /\ collectors' = [collectors EXCEPT ![p] =
                 [c EXCEPT !.pc = AfterJob(c, 1), !.k = 1,
                           !.writing = c.nodes_data # << >>,
                           !.tx_nodes = StoreNodes(c.nodes_data, << >>, c.timestamp)]]
           /\ UNCHANGED <<nodes, jobs, now, ticks, log, out, watch>>

\* line 106: should_store_job reads the committed rows and the rows of its
\* own transaction
Gate ==
    \E p \in Instances :
        LET c == collectors[p]
            j == c.jobs_data[c.k]
            pass == should_store_job(JobData(j.job_id, j.info), jobs \o c.tx_jobs, now)
            early == \A q \in Instances : collectors[q].pc # "done"
        IN /\ c.pc = "gate"
           /\ collectors' = [collectors EXCEPT ![p] =
                 [c EXCEPT !.pc = IF pass THEN "insert" ELSE AfterJob(c, c.k + 1),
                           !.k = IF pass THEN c.k ELSE c.k + 1,
                           !.gates = Append(@, [job_id |-> j.job_id, pass |-> pass, early |-> early])]]
           /\ UNCHANGED <<nodes, jobs, now, ticks, log, out, watch>>

\* the commit of a store that keeps one row per (job_id, user, machine)
CollectorCommit_upsert ==
    \E p \in Instances :
        LET c == collectors[p]
            Replaced(row) == \E i \in DOMAIN c.tx_jobs :
                                /\ c.tx_jobs[i].job_id = row.job_id
                                /\ c.tx_jobs[i].user = row.user
                                /\ c.tx_jobs[i].machine = row.machine
        IN /\ c.pc = "commit"
           /\ nodes' = nodes \o c.tx_nodes
           /\ jobs' = SelectSeq(jobs, LAMBDA row : ~Replaced(row)) \o c.tx_jobs
           /\ collectors' = [collectors EXCEPT ![p] =
                 [c EXCEPT !.pc = "done", !.writing = FALSE, !.tx_nodes = << >>, !.tx_jobs = << >>]]
           /\ UNCHANGED <<now, ticks, log, out, watch>>

\* lines 107-108: the INSERT of job k waits for the write lock
InsertJob ==
    \E p \in Instances :
        LET c == collectors[p]
            j == c.jobs_data[c.k]
        IN /\ c.pc = "insert"
           /\ WriteLockFree(p)
           /\ collectors' = [collectors EXCEPT ![p] =
                 [c EXCEPT !.pc = AfterJob(c, c.k + 1), !.k = c.k + 1, !.writing = TRUE,
                           !.tx_jobs = Append(@, JobRow(j.job_id, j.info))]]
           /\ UNCHANGED <<nodes, jobs, now, ticks, log, out, watch>>

\* lines 126-128: an INSERT that waited too long for the write lock raises
\* "database is locked"; the run ends and its transaction is rolled back
LockTimeout ==
    \E p \in Instances :
        LET c == collectors[p]
        IN /\ \/ c.pc = "insert"
              \/ c.pc = "nodes" /\ c.nodes_data # << >>
           /\ ~WriteLockFree(p)
           /\ collectors' = [collectors EXCEPT ![p] =
                 [c EXCEPT !.pc = "failed", !.writing = FALSE, !.tx_nodes = << >>, !.tx_jobs = << >>]]
           /\ UNCHANGED <<nodes, jobs, now, ticks, log, out, watch>>

\* lines 114-115: the transaction is committed
CollectorCommit ==
    \E p \in Instances :
        LET c == collectors[p]
        IN /\ c.pc = "commit"
           /\ nodes' = nodes \o c.tx_nodes
           /\ jobs' = jobs \o c.tx_jobs
           /\ collectors' = [collectors EXCEPT ![p] =
                 [c EXCEPT !.pc = "done", !.writing = FALSE, !.tx_nodes = << >>, !.tx_jobs = << >>]]
           /\ UNCHANGED <<now, ticks, log, out, watch>>

\* pbs_stats.py --real-time while the collectors run: qstat answers, or hangs
\* until subprocess.run gives up
LiveProbe ==
    /\ out = NoOut
    /\ watch.pc = "off"
    /\ \E q \in {[kind |-> "timeout", jobs |-> << >>], [kind |-> "ok", jobs |-> HostedJobs]} :
          out' = LiveOut(NULL, NULL, q)
    /\ UNCHANGED <<collectors, nodes, jobs, now, ticks, log, watch>>

NextCollectors ==
    \/ CollectorStart \/ PbsnodesReturns \/ QstatReturns \/ CommandFails
    \/ InsertNodes \/ Gate \/ InsertJob \/ LockTimeout \/ CollectorCommit
    \/ LiveProbe \/ Advance

SpecCollectors == Init /\ [][NextCollectors]_vars

\* ------------------------------------- claims on the Collector's steps
\* C17: every scheduler query is bounded by a timeout: no run of the
\* Collector waits for pbsnodes or qstat longer than the timeout, and the
\* Live Prober answers a query that timed out with an empty result instead
\* of failing.
C17_QueriesBounded ==
    /\ \A p \in Instances :
          collectors[p].pc \in {"pbsnodes", "qstat"} => now - collectors[p].since <= timeout
    /\ (out.op = "live" /\ out.qstat.kind = "timeout")
       => (~out.res.raised /\ out.res.results = << >>)

\* this run checked the job before any run had committed, and the check passed
EarlyPass(p, job_id) ==
    \E i \in DOMAIN collectors[p].gates :
        /\ collectors[p].gates[i].job_id = job_id
        /\ collectors[p].gates[i].pass
        /\ collectors[p].gates[i].early

\* C18: the check-then-insert of the Collector is not atomic: when two
\* concurrent runs both evaluate should_store_job for the same job before
\* either has committed, both pass, both insert, and the jobs table ends with
\* two rows of the same (job_id, user, machine) inside one dedup window.
C18_RaceStoresTwice ==
    \A job_id \in {HostedJobs[i].job_id : i \in DOMAIN HostedJobs} :
        (\A p \in Instances : collectors[p].pc = "done" /\ EarlyPass(p, job_id))
        => \E i, k \in DOMAIN jobs :
              /\ i < k
              /\ jobs[i].job_id = job_id /\ jobs[k].job_id = job_id
              /\ jobs[i].user = jobs[k].user
              /\ jobs[i].machine = jobs[k].machine /\ jobs[i].machine # NULL
              /\ LET d == parse_pbs_date(jobs[i].start_time) - parse_pbs_date(jobs[k].start_time)
                 IN d <= DedupWindow /\ 0 - d <= DedupWindow

\* both runs passed the check before either commit, and both have committed
C18_Witness ==
    /\ \A p \in Instances : collectors[p].pc = "done" /\ EarlyPass(p, "101.srv")
    /\ Len(jobs) = 2
    /\ jobs[1].machine = NodeA /\ jobs[2].machine = NodeA
    /\ jobs[1].start_time = jobs[2].start_time

\* ------------------------------------------ claims on the poll as a whole
\* C21: a poll is all-or-nothing: a run of collect_data that ends with an
\* error, at whatever statement, leaves the nodes and jobs tables exactly as
\* they were before it; a run that ends well has added its node rows.
C21_PollAllOrNothing ==
    \A k \in DOMAIN log :
        /\ log[k].raised = (log[k].fault # "none")
        /\ log[k].raised =>
              /\ JobsAfter(k) = JobsBefore(k)
              /\ NodesAfter(k) = SubSeq(nodes, 1, log[k].nodesBefore)
              /\ log[k].stored = {} /\ log[k].skipped = {}
        /\ ~log[k].raised =>
              Len(NodesAfter(k)) = log[k].nodesBefore + Len(log[k].nodes_data)

\* a run that had both answers failed on the jobs JSON, after a run that
\* filled the store
C21_Witness ==
    /\ Len(log) = 2
    /\ ~log[1].raised /\ log[1].nodes_data # << >> /\ log[1].stored # {}
    /\ log[2].fault = "jobs_json" /\ log[2].nodes_data # << >>
    /\ Len(nodes) = Len(log[1].nodes_data)

\* the row of the jobs table has the key the duplicate check asks for
KeyFound(job_data, table) ==
    \E i \in DOMAIN table :
        /\ table[i].job_id = job_data.job_id
        /\ SqlEq(table[i].user, job_data.user)
        /\ SqlEq(table[i].machine, job_data.machine)

\* C22: the dedup gate looks a job up under the (job_id, user, machine) key
\* the insert stores it under, also for a job without execution host: a job
\* just stored is found under the gate's key, and a host-less job polled
\* again within the dedup window gets no second row.
C22_GateKeyIsInsertKey ==
    \A k \in DOMAIN log : \A e \in Reported(k) :
        /\ (~log[k].raised /\ e.job_id \in log[k].stored)
           => KeyFound(JobData(e.job_id, e.info), JobsAfter(k))
        /\ ( /\ PolledTwice(k, e)
             /\ e.info.exec_host = << >>
             /\ log[k + 1].t - log[k].t < DedupWindow )
           => Cardinality(RowsOfJob(JobsAfter(k + 1), e.job_id)) = 1

====
